---- MODULE Spec2Model ----
(***************************************************************************)
(* Header chain of src/src/c2_blockchain/p1_header_chain.rs.               *)
(*                                                                         *)
(* A u64 is kept at its full width as four 16-bit limbs, most significant  *)
(* first, so that u64::MAX and the overflow of `height + 1` are the real   *)
(* ones.  `height + 1` overflowing is not undefined in Rust: a build with  *)
(* overflow checks (debug, `cargo test`) panics, a build without them      *)
(* (release) wraps.  The build profile is chosen in Init.                  *)
(*                                                                         *)
(* crate::hash is not part of the sources; it is modelled from the         *)
(* specification as a deterministic opaque function Header -> u64, fixed   *)
(* for a whole behaviour and drawn in Init from a keyed family.  Nothing   *)
(* below relies on it being injective: the family has collisions.          *)
(*                                                                         *)
(* Clothes machine of src/src/c1_state_machine/p2_laundry_machine.rs.      *)
(*                                                                         *)
(* It has its own specification, LaundrySpec, over its own variables; each *)
(* specification leaves the other's variables at rest.  `life - 1` on a    *)
(* life of 0 overflows like `height + 1` does: panic or wrap to u64::MAX.  *)
(***************************************************************************)
EXTENDS Integers, Sequences, FiniteSets, TLC

\* ---------------------------------------------------------------- bounds
\* longest chain (start header included) the builders grow
MaxLen == 3
\* number of field mutations (b1.height = .. / b1.parent = ..) per chain
MaxTampers == 2
\* heights 0..MaxSmall are offered to a mutation, besides 10 and u64::MAX
MaxSmall == 1
\* number of keys the hasher behind crate::hash is drawn from
NumKeys == 2

\* ---------------------------------------------------------------- u64
LimbBase == 2 ^ 16
LimbMax == LimbBase - 1
NumLimbs == 64 \div 16

\* the u64 with numeric value n, for n < 2^16
FromSmall(n) == <<0, 0, 0, n>>

U64Max == <<LimbMax, LimbMax, LimbMax, LimbMax>>

RECURSIVE IncLimbs(_, _)
\* add one at limb i, carrying to the left; the carry out of limb 1 is dropped
IncLimbs(v, i) ==
    IF i = 0 THEN v
    ELSE IF v[i] < LimbMax THEN [v EXCEPT ![i] = @ + 1]
    ELSE IncLimbs([v EXCEPT ![i] = 0], i - 1)

\* u64::wrapping_add(v, 1)
WrappingAdd1(v) == IncLimbs(v, NumLimbs)

VARIABLES
    overflow_checks,  \* build profile: TRUE = arithmetic overflow panics
    k0,               \* key of the hasher behind crate::hash
    chain,            \* the Vec<Header> under construction / under test
    tampers,          \* field mutations applied to the current chain
    pristine,         \* chain was built by genesis() and child() only
    ret,              \* outcome of the last call
    clothes,          \* the ClothesState the machine is in
    origin,           \* the ClothesState the run started from
    steps,            \* next_state calls made since the start
    call              \* the last next_state call: its arguments, and whether it panicked

\* the variables of the clothes machine
lvars == <<clothes, origin, steps, call>>

\* the variables of the header chain, the build profile apart
hvars == <<k0, chain, tampers, pristine, ret>>

vars == <<overflow_checks, k0, chain, tampers, pristine, ret, clothes, origin, steps, call>>

\* mutant: the addition written as wrapping_add, which never panics
Add1_wrapping(v) == [panicked |-> FALSE, val |-> WrappingAdd1(v)]

\* `self.height + 1` on a u64 (lines 41 and 55)
Add1(v) ==
    IF v = U64Max
    THEN [panicked |-> overflow_checks, val |-> WrappingAdd1(v)]
    ELSE [panicked |-> FALSE, val |-> WrappingAdd1(v)]

\* ---------------------------------------------------------------- Header
Unit == <<>>

Ten == FromSmall(10)
Zero == FromSmall(0)
One == FromSmall(1)

\* ---------------------------------------------------------------- hash
\* digests the modelled hash function can produce: the genesis sentinel, the
\* value the tests write into a mutated field, and two other u64 values
Digests == <<Zero, Ten, <<40503, 31161, 32586, 31765>>, U64Max>>

\* Hasher::write_u64: absorb one u64 into the hasher state, limb by limb
write_u64(state, v) ==
    (state * 3 + 2 * v[1] + v[2] + v[3] + v[4]) % Len(Digests)

\* crate::hash(&header): derive(Hash) feeds the fields in declaration order
\* (the three unit fields feed nothing), finish() yields the digest
hash(h) == Digests[write_u64(write_u64(k0, h.parent), h.height) + 1]

\* mutant: genesis numbered from one
genesis_height_one ==
    [parent |-> Zero, height |-> One,
     extrinsics_root |-> Unit, state_root |-> Unit, consensus_digest |-> Unit]

\* Header::genesis
genesis ==
    [parent |-> Zero, height |-> Zero,
     extrinsics_root |-> Unit, state_root |-> Unit, consensus_digest |-> Unit]

\* mutant: the parent field left to `..self.clone()`
child_unlinked(self) ==
    LET s == Add1(self.height)
    IN  [panicked |-> s.panicked, hdr |-> [self EXCEPT !.height = s.val]]

\* Header::child; the struct expression evaluates hash(&self), then
\* self.height + 1, then copies the remaining fields from self.clone()
child(self) ==
    LET s == Add1(self.height)
    IN  [panicked |-> s.panicked,
         hdr |-> [self EXCEPT !.parent = hash(self), !.height = s.val]]

RECURSIVE verify_same_start(_, _)
\* mutant: the recursion written self.verify_sub_chain(&chain[1..])
verify_same_start(self, c) ==
    IF Len(c) = 0 THEN "true"
    ELSE IF hash(self) # c[1].parent THEN "false"
    ELSE LET s == Add1(self.height)
         IN  IF s.panicked THEN "panic"
             ELSE IF s.val # c[1].height THEN "false"
             ELSE verify_same_start(self, Tail(c))

\* mutant: only the first link is checked, the recursion is missing
verify_first_link(self, c) ==
    IF Len(c) = 0 THEN "true"
    ELSE IF hash(self) # c[1].parent THEN "false"
    ELSE LET s == Add1(self.height)
         IN  IF s.panicked THEN "panic"
             ELSE IF s.val # c[1].height THEN "false"
             ELSE "true"

RECURSIVE verify_no_height(_, _)
\* mutant: the height comparison is missing
verify_no_height(self, c) ==
    IF Len(c) = 0 THEN "true"
    ELSE IF hash(self) # c[1].parent THEN "false"
    ELSE verify_no_height(c[1], Tail(c))

RECURSIVE verify_checks_start(_, _)
\* mutant: the start header is itself required to be a genesis header
verify_checks_start(self, c) ==
    IF self.height # Zero THEN "false"
    ELSE IF Len(c) = 0 THEN "true"
    ELSE IF hash(self) # c[1].parent THEN "false"
    ELSE LET s == Add1(self.height)
         IN  IF s.panicked THEN "panic"
             ELSE IF s.val # c[1].height THEN "false"
             ELSE verify_checks_start(c[1], Tail(c))

RECURSIVE verify_sub_chain(_, _)
\* Header::verify_sub_chain; && evaluates left to right and stops at the
\* first false operand
verify_sub_chain(self, c) ==
    IF Len(c) = 0 THEN "true"
    ELSE IF hash(self) # c[1].parent THEN "false"
    ELSE LET s == Add1(self.height)
         IN  IF s.panicked THEN "panic"
             ELSE IF s.val # c[1].height THEN "false"
             ELSE verify_sub_chain(c[1], Tail(c))

\* ---------------------------------------------------------------- clothes
\* ClothesState::Tattered; the variant carries no life, the field is a filler
Tattered == [tag |-> "Tattered", life |-> Zero]

\* ClothesState::Clean(x) / Dirty(x) / Wet(x)
Clothes(tag, x) == [tag |-> tag, life |-> x]

\* the clothes machine before any run
LaundryIdle ==
    /\ clothes = Tattered
    /\ origin = Tattered
    /\ steps = 0
    /\ call = [from |-> Tattered, t |-> "none", panicked |-> FALSE]

\* ---------------------------------------------------------------- state machine
Heights == {FromSmall(n) : n \in 0..MaxSmall} \cup {Ten, U64Max}
Parents == {Digests[i] : i \in 1..Len(Digests)}

Outcome(op, out, arg, hdr) == [op |-> op, out |-> out, arg |-> arg, hdr |-> hdr]

Init ==
    /\ overflow_checks \in BOOLEAN
    /\ k0 \in 0..(NumKeys - 1)
    /\ chain = <<>>
    /\ tampers = 0
    /\ pristine = TRUE
    /\ ret = Outcome("none", "ok", genesis, genesis)
    /\ LaundryIdle

\* let g = Header::genesis(); / vec![Header::genesis()]
Genesis ==
    /\ chain' = <<genesis>>
    /\ tampers' = 0
    /\ pristine' = TRUE
    /\ ret' = Outcome("genesis", "ok", genesis, genesis)
    /\ UNCHANGED <<lvars, overflow_checks, k0>>

\* mutant: the child written over the tail instead of pushed after it
Push_overwrite ==
    /\ Len(chain) > 0
    /\ Len(chain) < MaxLen
    /\ LET last == chain[Len(chain)]
           r == child(last)
       IN  IF r.panicked
           THEN /\ chain' = chain
                /\ ret' = Outcome("push", "panic", last, last)
           ELSE /\ chain' = [chain EXCEPT ![Len(chain)] = r.hdr]
                /\ ret' = Outcome("push", "ok", last, r.hdr)
    /\ UNCHANGED <<lvars, overflow_checks, k0, tampers, pristine>>

\* chain.push(chain.last().unwrap().child())
Push ==
    /\ Len(chain) > 0
    /\ Len(chain) < MaxLen
    /\ LET last == chain[Len(chain)]
           r == child(last)
       IN  IF r.panicked
           THEN /\ chain' = chain
                /\ ret' = Outcome("push", "panic", last, last)
           ELSE /\ chain' = Append(chain, r.hdr)
                /\ ret' = Outcome("push", "ok", last, r.hdr)
    /\ UNCHANGED <<lvars, overflow_checks, k0, tampers, pristine>>

\* build_an_invalid_chain
BuildInvalid ==
    /\ chain' = <<genesis, genesis, genesis>>
    /\ tampers' = 0
    /\ pristine' = FALSE
    /\ ret' = Outcome("invalid", "ok", genesis, genesis)
    /\ UNCHANGED <<lvars, overflow_checks, k0>>

\* let b1 = g.child();  on any header at hand
Child ==
    \E i \in 1..Len(chain) :
        LET r == child(chain[i])
        IN  /\ ret' = Outcome("child", IF r.panicked THEN "panic" ELSE "ok",
                              chain[i], IF r.panicked THEN chain[i] ELSE r.hdr)
            /\ UNCHANGED <<lvars, overflow_checks, k0, chain, tampers, pristine>>

\* b1.height = 10;  with any u64 of the modelled window
SetHeight ==
    \E i \in 1..Len(chain), v \in Heights :
        /\ tampers < MaxTampers
        /\ v # chain[i].height
        /\ chain' = [chain EXCEPT ![i].height = v]
        /\ tampers' = tampers + 1
        /\ pristine' = FALSE
        /\ ret' = Outcome("tamper", "ok", genesis, genesis)
        /\ UNCHANGED <<lvars, overflow_checks, k0>>

\* b1.parent = 10;  with any u64 of the modelled window
SetParent ==
    \E i \in 1..Len(chain), v \in Parents :
        /\ tampers < MaxTampers
        /\ v # chain[i].parent
        /\ chain' = [chain EXCEPT ![i].parent = v]
        /\ tampers' = tampers + 1
        /\ pristine' = FALSE
        /\ ret' = Outcome("tamper", "ok", genesis, genesis)
        /\ UNCHANGED <<lvars, overflow_checks, k0>>

\* chain[0].verify_sub_chain(&chain[1..])
Verify ==
    /\ Len(chain) > 0
    /\ ret' = Outcome("verify", verify_sub_chain(chain[1], Tail(chain)),
                      chain[1], chain[1])
    /\ UNCHANGED <<lvars, overflow_checks, k0, chain, tampers, pristine>>

Next ==
    \/ Genesis
    \/ Push
    \/ BuildInvalid
    \/ Child
    \/ SetHeight
    \/ SetParent
    \/ Verify

Spec == Init /\ [][Next]_vars

TypeOK ==
    /\ overflow_checks \in BOOLEAN
    /\ Len(chain) <= MaxLen
    /\ tampers \in 0..MaxTampers
    /\ ret.out \in {"ok", "true", "false", "panic"}
\* ---------------------------------------------------------------- properties
\* the numeric value of a u64, and of its successor, as five limbs: the
\* successor of u64::MAX is 2^64, which no u64 holds
Widen(v) == <<0>> \o v
MathSucc(v) == IF v = U64Max THEN <<1, 0, 0, 0, 0>> ELSE <<0>> \o WrappingAdd1(v)

IsU64(v) == /\ Len(v) = NumLimbs
            /\ \A i \in 1..NumLimbs : v[i] \in 0..LimbMax

IsHeader(h) ==
    /\ DOMAIN h = {"parent", "height", "extrinsics_root", "state_root", "consensus_digest"}
    /\ IsU64(h.parent)
    /\ IsU64(h.height)

Called(op) == ret.op = op
ChildCalled == ret.op \in {"child", "push"}

\* C1 (as claimed): verify_sub_chain never panics; for every start header and
\* every continuation it returns true or false.
C1_VerifyNeverPanics ==
    Called("verify") => ret.out \in {"true", "false"}

\* C2 (as claimed): for any header h, child(h).height == h.height + 1 and
\* child(h).parent == hash(h).
C2_ChildLinkageAnyHeader ==
    ChildCalled =>
        /\ ret.out = "ok"
        /\ Widen(ret.hdr.height) = MathSucc(ret.arg.height)
        /\ ret.hdr.parent = hash(ret.arg)

\* C2 (amended): for any header h whose height is below u64::MAX,
\* child(h).height == h.height + 1 and child(h).parent == hash(h).
C2_ChildLinkage ==
    (ChildCalled /\ ret.arg.height # U64Max) =>
        /\ ret.out = "ok"
        /\ Widen(ret.hdr.height) = MathSucc(ret.arg.height)
        /\ ret.hdr.parent = hash(ret.arg)

C2_Witness ==
    /\ Called("child")
    /\ ret.out = "ok"
    /\ ret.arg.height = Ten
    /\ ret.arg.parent # Zero
    /\ ret.hdr.height = FromSmall(11)

\* C3: a chain built from genesis() by repeatedly appending child(tail)
\* verifies from its first element against the rest, at every length >= 1.
C3_BuiltChainVerifies ==
    (Called("verify") /\ pristine) => ret.out = "true"

C3_Witness ==
    /\ Called("verify")
    /\ pristine
    /\ Len(chain) >= 3
    /\ ret.out = "true"
RECURSIVE verify_iter(_, _, _)
\* the left-to-right loop: p is the current predecessor, i the position
verify_iter(p, c, i) ==
    IF i > Len(c) THEN "true"
    ELSE IF hash(p) # c[i].parent THEN "false"
    ELSE LET s == Add1(p.height)
         IN  IF s.panicked THEN "panic"
             ELSE IF s.val # c[i].height THEN "false"
             ELSE verify_iter(c[i], c, i + 1)

\* both checks of one position, as the program evaluates them
LinkChecks(p, h) ==
    /\ hash(p) = h.parent
    /\ ~Add1(p.height).panicked
    /\ Add1(p.height).val = h.height

LinkHolds(p, h) ==
    /\ hash(p) = h.parent
    /\ Widen(h.height) = MathSucc(p.height)

\* C5 (as claimed): if the parent-hash check or the height check fails at any
\* position, verify_sub_chain returns false whatever follows; in particular
\* [genesis(), genesis(), genesis()] does not verify.
C5_BrokenLinkIsFalse ==
    /\ (Called("verify") /\ \E k \in 2..Len(chain) : ~LinkHolds(chain[k - 1], chain[k]))
           => ret.out = "false"
    /\ (Called("verify") /\ chain = <<genesis, genesis, genesis>>)
           => ret.out = "false"

\* C6: with g = genesis() and b1 = child(g), once b1.height is not
\* g.height + 1 or b1.parent is not hash(g), verify_sub_chain(g, [b1]) is
\* false.
C6_TamperedChildRejected ==
    (/\ Called("verify")
     /\ Len(chain) = 2
     /\ chain[1] = genesis
     /\ \/ chain[2].height # One
        \/ chain[2].parent # hash(genesis))
        => ret.out = "false"

C6_Witness ==
    /\ Called("verify")
    /\ Len(chain) = 2
    /\ chain[1] = genesis
    /\ chain[2].height = Ten
    /\ chain[2].parent = hash(genesis)
    /\ tampers = 1
    /\ ret.out = "false"

\* C7: verify_sub_chain(h, []) is true for every header h, whatever its
\* parent and height.
C7_EmptySuffixVerifies ==
    (Called("verify") /\ Len(chain) = 1) => ret.out = "true"

C7_Witness ==
    /\ Called("verify")
    /\ Len(chain) = 1
    /\ chain[1].height = U64Max
    /\ chain[1].parent # Zero
    /\ ret.out = "true"

\* C8 (as claimed): child cannot fail; for every header, with any parent and
\* any height in the u64 range, it returns a header.
C8_ChildTotalAnyHeight ==
    ChildCalled => (ret.out = "ok" /\ IsHeader(ret.hdr))

\* C8 (amended): child returns a header for every header whose height is
\* below u64::MAX; at u64::MAX the addition overflows, which panics in a
\* build with overflow checks and yields a child of height 0 in a build
\* without them.
C8_ChildTotal ==
    ChildCalled =>
        IF ret.arg.height # U64Max
        THEN ret.out = "ok" /\ IsHeader(ret.hdr)
        ELSE IF overflow_checks
             THEN ret.out = "panic"
             ELSE ret.out = "ok" /\ IsHeader(ret.hdr) /\ ret.hdr.height = Zero

C8_Witness ==
    /\ Called("child")
    /\ ret.arg.height = U64Max
    /\ overflow_checks
    /\ ret.out = "panic"

\* C9: extending a chain with child(tail) changes no header already in the
\* chain, and the new header's placeholder fields equal its parent's.
C9_PushKeepsEarlierHeaders ==
    [][ret'.op = "push" =>
          /\ Len(chain') >= Len(chain)
          /\ \A i \in 1..Len(chain) : chain'[i] = chain[i]
          /\ ret'.out = "ok" =>
                /\ Len(chain') = Len(chain) + 1
                /\ LET new == chain'[Len(chain')]
                       tail == chain[Len(chain)]
                   IN  /\ new.extrinsics_root = tail.extrinsics_root
                       /\ new.state_root = tail.state_root
                       /\ new.consensus_digest = tail.consensus_digest]_vars

C9_Witness ==
    /\ Called("push")
    /\ ret.out = "ok"
    /\ Len(chain) = 3
    /\ chain[Len(chain)] = ret.hdr
    /\ chain[Len(chain) - 1] = ret.arg

\* C10: genesis() returns a header with height 0 and parent equal to the
\* sentinel 0, the same on every call.
C10_GenesisShape ==
    /\ Called("genesis") =>
          /\ ret.hdr.height = <<0, 0, 0, 0>>
          /\ ret.hdr.parent = <<0, 0, 0, 0>>
          /\ chain = <<ret.hdr>>
    /\ Called("invalid") =>
          \A i \in 1..Len(chain) :
              /\ chain[i] = chain[1]
              /\ chain[i].height = <<0, 0, 0, 0>>
              /\ chain[i].parent = <<0, 0, 0, 0>>

C10_Witness ==
    /\ Called("genesis")
    /\ chain = <<ret.hdr>>
    /\ ret.hdr.height = <<0, 0, 0, 0>>
\* ---------------------------------------------------------------- clothes machine
\* largest life a run starts from
MaxLife == 4
\* longest run of next_state calls
MaxSteps == 6

RECURSIVE DecLimbs(_, _)
\* subtract one at limb i, borrowing from the left; the borrow out of limb 1
\* is dropped
DecLimbs(v, i) ==
    IF i = 0 THEN v
    ELSE IF v[i] > 0 THEN [v EXCEPT ![i] = @ - 1]
    ELSE DecLimbs([v EXCEPT ![i] = LimbMax], i - 1)

\* u64::wrapping_sub(v, 1)
WrappingSub1(v) == DecLimbs(v, NumLimbs)

\* `life - 1` on a u64 (lines 58 to 63)
Sub1(v) ==
    IF v = Zero
    THEN [panicked |-> overflow_checks, val |-> WrappingSub1(v)]
    ELSE [panicked |-> FALSE, val |-> WrappingSub1(v)]

\* ClothesState::life
life(self) ==
    IF self.tag = "Tattered"
    THEN [some |-> FALSE, val |-> Zero]
    ELSE [some |-> TRUE, val |-> self.life]

\* the outcome of a next_state call
Returned(state) == [panicked |-> FALSE, state |-> state]
Panicked(state) == [panicked |-> TRUE, state |-> state]

\* the `match t` of next_state, with `life - 1` evaluated in the arm taken
Arms(starting_state, t, l) ==
    LET d == Sub1(l)
        to == CASE t = "Wear" -> "Dirty"
                [] t = "Wash" -> "Wet"
                [] t = "Dry" -> CASE starting_state.tag = "Clean" -> "Clean"
                                  [] starting_state.tag = "Wet" -> "Clean"
                                  [] starting_state.tag = "Dirty" -> "Dirty"
    IN  IF d.panicked THEN Panicked(starting_state)
        ELSE Returned(Clothes(to, d.val))

\* mutant: tattered clothes come back as clean ones
next_state_mend(starting_state, t) ==
    IF life(starting_state).some /\ life(starting_state).val = One
    THEN Returned(Tattered)
    ELSE IF life(starting_state).some
    THEN Arms(starting_state, t, life(starting_state).val)
    ELSE Returned(Clothes("Clean", One))

\* mutant: the clothes tatter one call late, at a life of 0
next_state_tatter_at_zero(starting_state, t) ==
    IF life(starting_state).some /\ life(starting_state).val = Zero
    THEN Returned(Tattered)
    ELSE IF life(starting_state).some
    THEN Arms(starting_state, t, life(starting_state).val)
    ELSE Returned(Tattered)

\* mutant: the `Some(1)` branch is missing
next_state_no_last_life(starting_state, t) ==
    IF life(starting_state).some
    THEN Arms(starting_state, t, life(starting_state).val)
    ELSE Returned(Tattered)

\* mutant: the drier cleans dirty clothes
next_state_dry_cleans(starting_state, t) ==
    IF life(starting_state).some /\ life(starting_state).val = One
    THEN Returned(Tattered)
    ELSE IF life(starting_state).some
    THEN IF t = "Dry" /\ starting_state.tag = "Dirty"
         THEN Arms(Clothes("Clean", starting_state.life), t, life(starting_state).val)
         ELSE Arms(starting_state, t, life(starting_state).val)
    ELSE Returned(Tattered)

\* mutant: wearing costs no life
next_state_wear_free(starting_state, t) ==
    IF life(starting_state).some /\ life(starting_state).val = One
    THEN Returned(Tattered)
    ELSE IF life(starting_state).some
    THEN IF t = "Wear"
         THEN Returned(Clothes("Dirty", life(starting_state).val))
         ELSE Arms(starting_state, t, life(starting_state).val)
    ELSE Returned(Tattered)

\* mutant: washed clothes come out clean instead of wet
next_state_wash_clean(starting_state, t) ==
    IF life(starting_state).some /\ life(starting_state).val = One
    THEN Returned(Tattered)
    ELSE IF life(starting_state).some
    THEN IF t = "Wash"
         THEN Arms(Clothes("Clean", starting_state.life), "Dry", life(starting_state).val)
         ELSE Arms(starting_state, t, life(starting_state).val)
    ELSE Returned(Tattered)

\* ClothesMachine::next_state
next_state(starting_state, t) ==
    IF life(starting_state).some /\ life(starting_state).val = One
    THEN Returned(Tattered)
    ELSE IF life(starting_state).some
    THEN Arms(starting_state, t, life(starting_state).val)
    ELSE Returned(Tattered)

\* the states a run starts from: let start = ClothesState::Clean(4); ...
Lives == {FromSmall(n) : n \in 0..MaxLife}
ClothesStates ==
    {Clothes(tag, x) : tag \in {"Clean", "Dirty", "Wet"}, x \in Lives} \cup {Tattered}

LaundryInit ==
    /\ overflow_checks \in BOOLEAN
    /\ k0 = 0
    /\ chain = <<>>
    /\ tampers = 0
    /\ pristine = TRUE
    /\ ret = Outcome("none", "ok", genesis, genesis)
    /\ clothes \in ClothesStates
    /\ origin = clothes
    /\ steps = 0
    /\ call = [from |-> Tattered, t |-> "none", panicked |-> FALSE]

\* let end = ClothesMachine::next_state(&start, &t); a panic ends the run
Transition(t) ==
    /\ steps < MaxSteps
    /\ ~call.panicked
    /\ LET r == next_state(clothes, t)
       IN  /\ clothes' = r.state
           /\ call' = [from |-> clothes, t |-> t, panicked |-> r.panicked]
    /\ steps' = steps + 1
    /\ UNCHANGED <<origin, hvars, overflow_checks>>

\* ClothesAction::Wear
Wear == Transition("Wear")

\* ClothesAction::Wash
Wash == Transition("Wash")

\* ClothesAction::Dry
Dry == Transition("Dry")

LaundryNext ==
    \/ Wear
    \/ Wash
    \/ Dry

LaundrySpec == LaundryInit /\ [][LaundryNext]_vars

LaundryTypeOK ==
    /\ clothes.tag \in {"Clean", "Dirty", "Wet", "Tattered"}
    /\ steps \in 0..MaxSteps
    /\ call.t \in {"none", "Wear", "Wash", "Dry"}
    /\ (clothes.tag = "Tattered") => (clothes = Tattered)
\* ---------------------------------------------------------------- clothes properties
\* a next_state call was made on clothes with some life left
Acted(t) == call.t = t /\ call.from.tag # "Tattered"

\* the life after the call is the life before it minus one
OneLifeLess == WrappingAdd1(clothes.life) = call.from.life

\* n >= 2 for the life the call started from
AtLeastTwoLives == call.from.life # Zero /\ call.from.life # One

\* C11: Tattered is absorbing: next_state(Tattered, a) is Tattered for every
\* action a, so a run that has reached Tattered stays Tattered.
C11_TatteredAbsorbing ==
    [][(clothes.tag = "Tattered" /\ steps' = steps + 1) =>
          (clothes' = Tattered /\ ~call'.panicked)]_vars

C11_Witness ==
    /\ origin = Clothes("Clean", FromSmall(2))
    /\ call.from = Tattered
    /\ call.t = "Wash"
    /\ clothes = Tattered
    /\ steps = 4

\* C12: from Clean(n), Dirty(n) or Wet(n) with n >= 1, every sequence of
\* exactly n actions ends in Tattered, and the state is not Tattered after
\* fewer than n actions.
C12_TatteredAfterExactlyN ==
    (origin.tag # "Tattered" /\ origin.life # Zero) =>
        /\ ~call.panicked
        /\ (clothes.tag = "Tattered") <=> (steps >= origin.life[4])

C12_Witness ==
    /\ origin = Clothes("Wet", FromSmall(3))
    /\ steps = 3
    /\ call.from.life = One
    /\ clothes = Tattered

\* C13: clothes with exactly 1 life left become Tattered under any action.
C13_LastLifeTatters ==
    (call.t \in {"Wear", "Wash", "Dry"} /\ call.from.tag # "Tattered"
        /\ call.from.life = One) =>
        (clothes = Tattered /\ ~call.panicked)

C13_Witness ==
    /\ origin = Clothes("Wet", One)
    /\ call.from = origin
    /\ call.t = "Dry"
    /\ clothes = Tattered

\* C14: for every n >= 2, Dry takes Clean(n) to Clean(n-1), Wet(n) to
\* Clean(n-1) and Dirty(n) to Dirty(n-1).
C14_DryKeepsDirt ==
    (Acted("Dry") /\ AtLeastTwoLives) =>
        /\ ~call.panicked
        /\ OneLifeLess
        /\ call.from.tag \in {"Clean", "Wet"} => clothes.tag = "Clean"
        /\ call.from.tag = "Dirty" => clothes.tag = "Dirty"

C14_Witness ==
    /\ call.from = Clothes("Dirty", FromSmall(4))
    /\ call.t = "Dry"
    /\ clothes = Clothes("Dirty", FromSmall(3))

\* C15: for every n >= 2, Wear takes each of Clean(n), Dirty(n) and Wet(n)
\* to Dirty(n-1).
C15_WearMakesDirty ==
    (Acted("Wear") /\ AtLeastTwoLives) =>
        /\ ~call.panicked
        /\ OneLifeLess
        /\ clothes.tag = "Dirty"

C15_Witness ==
    /\ call.from = Clothes("Wet", FromSmall(4))
    /\ call.t = "Wear"
    /\ clothes = Clothes("Dirty", FromSmall(3))

\* C16: for every n >= 2, Wash takes each of Clean(n), Dirty(n) and Wet(n)
\* to Wet(n-1).
C16_WashMakesWet ==
    (Acted("Wash") /\ AtLeastTwoLives) =>
        /\ ~call.panicked
        /\ OneLifeLess
        /\ clothes.tag = "Wet"

C16_Witness ==
    /\ call.from = Clothes("Dirty", FromSmall(4))
    /\ call.t = "Wash"
    /\ clothes = Clothes("Wet", FromSmall(3))
====
